---------------------------- MODULE Spec2Model ----------------------------
(***************************************************************************)
(* The SquirrelDB binary wire-protocol client (src/src/tcp.ts over         *)
(* src/src/protocol.ts) as a state machine.                                *)
(*                                                                         *)
(* One SquirrelDBTcp instance, its byte stream and a server.  Bytes are    *)
(* naturals 0..255, buffers are sequences of bytes.  Correlation ids are   *)
(* the numbers the code stringifies (String(n) is injective).  JavaScript  *)
(* runs one handler at a time: each socket event handler and each user     *)
(* call is one action; the continuation of an `await` is a microtask, and  *)
(* the event loop delivers no socket event while microtasks are queued.    *)
(***************************************************************************)
EXTENDS Integers, Sequences, FiniteSets, TLC

(***************************************************************************)
(* Bounds of the model.                                                    *)
(***************************************************************************)
MaxRequests == 2          \* requests one session issues (cap on requestId)
MaxServerFrames == 2      \* frames the server sends after its handshake
MaxWire == 2              \* pieces in flight from server to client
MaxWritten == 3           \* writes the client makes on the stream
MaxBuilt == 2             \* frames built from given arguments
MaxPieces == 3            \* frames or parts of frames buffered when processFrames is entered
MaxSockets == 4           \* WebSocket objects one client creates
MaxWsRequests == 2        \* requests the WebSocket client issues
MaxAttempts == 2          \* largest maxReconnectAttempts among the options
MaxWsCallbacks == 2       \* change notifications the WebSocket client delivers

(***************************************************************************)
(* protocol.ts: constants and enums.                                       *)
(***************************************************************************)
MAGIC == <<83, 81, 82, 76>>
PROTOCOL_VERSION == 1
MAX_MESSAGE_SIZE == 16777216

HS_Success == 0
HS_VersionMismatch == 1
HS_AuthFailed == 2

MT_Request == 1
MT_Response == 2
MT_Notification == 3

ENC_MessagePack == 1
ENC_Json == 2

HANDSHAKE_RESPONSE_LEN == 19
FRAME_HEADER_LEN == 6

Min(a, b) == IF a < b THEN a ELSE b

\* Uint8Array.prototype.slice(a, b) and slice(a) for 0 <= a, 0 <= b.
Slice(s, a, b) == SubSeq(s, a + 1, Min(b, Len(s)))
SliceFrom(s, a) == SubSeq(s, a + 1, Len(s))

(***************************************************************************)
(* protocol.ts: flags.                                                     *)
(***************************************************************************)
flagsToByte(flags) ==
    (IF flags.messagepack THEN 1 ELSE 0) + (IF flags.jsonFallback THEN 2 ELSE 0)

byteToFlags(byte) ==
    [messagepack |-> (byte % 2) # 0, jsonFallback |-> ((byte \div 2) % 2) # 0]

(***************************************************************************)
(* protocol.ts: handshake.  A token is its sequence of UTF-8 bytes.        *)
(***************************************************************************)
buildHandshake(tokenBytes, flags) ==
    MAGIC \o <<PROTOCOL_VERSION, flagsToByte(flags)>>
          \o <<(Len(tokenBytes) \div 256) % 256, Len(tokenBytes) % 256>>
          \o tokenBytes

\* ok = FALSE is the thrown "Handshake response too short".
parseHandshakeResponse(data) ==
    IF Len(data) < HANDSHAKE_RESPONSE_LEN
    THEN [ok |-> FALSE, status |-> 0, version |-> 0,
          flags |-> byteToFlags(0), sessionId |-> <<>>]
    ELSE [ok |-> TRUE, status |-> data[1], version |-> data[2],
          flags |-> byteToFlags(data[3]), sessionId |-> Slice(data, 3, 19)]

(***************************************************************************)
(* protocol.ts: uuidToString.  A string is the sequence of its characters. *)
(***************************************************************************)
HexDigit(n) ==
    <<"0", "1", "2", "3", "4", "5", "6", "7",
      "8", "9", "a", "b", "c", "d", "e", "f">>[n + 1]

RECURSIVE HexOf(_)
HexOf(bytes) ==
    IF bytes = <<>> THEN <<>>
    ELSE <<HexDigit(Head(bytes) \div 16), HexDigit(Head(bytes) % 16)>>
         \o HexOf(Tail(bytes))

uuidToString(bytes) ==
    LET hex == HexOf(bytes) IN
    Slice(hex, 0, 8) \o <<"-">> \o Slice(hex, 8, 12) \o <<"-">>
        \o Slice(hex, 12, 16) \o <<"-">> \o Slice(hex, 16, 20) \o <<"-">>
        \o SliceFrom(hex, 20)

(***************************************************************************)
(* protocol.ts: frames.                                                    *)
(***************************************************************************)
U32BE(n) ==
    <<(n \div 16777216) % 256, (n \div 65536) % 256, (n \div 256) % 256, n % 256>>

\* view.getUint32(0, false).  Values of 2^31 and above stand as 2^31 - 1, the
\* largest integer the model checker holds: every use of the value compares
\* it, less 2, with MAX_MESSAGE_SIZE.
GetUint32(data) ==
    IF data[1] >= 128 THEN 2147483647
    ELSE data[1] * 16777216 + data[2] * 65536 + data[3] * 256 + data[4]

\* Mutant: the length field holds the payload length alone.
buildFrame_PayloadLength(msgType, encoding, payload) ==
    U32BE(Len(payload)) \o <<msgType, encoding>> \o payload

buildFrame(msgType, encoding, payload) ==
    U32BE(Len(payload) + 2) \o <<msgType, encoding>> \o payload

\* Mutant: the length field taken as the payload length.
parseFrameHeader_NoTypeBytes(data) ==
    [payloadLength |-> GetUint32(data), msgType |-> data[5], encoding |-> data[6]]

\* Mutant: the length field taken as the length of the whole frame.
parseFrameHeader_WholeFrame(data) ==
    [payloadLength |-> GetUint32(data) - 6, msgType |-> data[5], encoding |-> data[6]]

\* Called with at least 6 bytes by processFrames (its loop condition).
parseFrameHeader(data) ==
    [payloadLength |-> GetUint32(data) - 2, msgType |-> data[5], encoding |-> data[6]]

(***************************************************************************)
(* Messages.  The two serialisers are libraries (msgpackr, JSON); what the *)
(* client relies on is modelled: each format turns a tagged message into   *)
(* bytes, reads its own bytes back, and throws on anything else.  A        *)
(* message is [type, id, error]; error is "" except on an `error` message. *)
(***************************************************************************)
ServerTags == <<"result", "change", "subscribed", "unsubscribed", "error", "pong">>
ClientTags == <<"query", "subscribe", "unsubscribe", "insert", "update",
                "delete", "listcollections", "ping">>
ErrorTexts == <<"E1">>
AllTags == ServerTags \o ClientTags

IndexOf(seq, x) == CHOOSE i \in 1..Len(seq) : seq[i] = x
Range(seq) == {seq[i] : i \in 1..Len(seq)}

Msg(tag, id, text) == [type |-> tag, id |-> id, error |-> text]

\* The tag byte of the JSON text of a message with tag number ix.
JsonTagByte(ix) == 64 + ix

\* pack(msg) / JSON.stringify(msg): tag byte, id byte, and the error text.
MsgFields(msg) ==
    <<msg.id>> \o (IF msg.type = "error" THEN <<IndexOf(ErrorTexts, msg.error)>> ELSE <<>>)

encodeMessage(msg, encoding) ==
    IF encoding = ENC_MessagePack
    THEN <<IndexOf(AllTags, msg.type)>> \o MsgFields(msg)
    ELSE <<JsonTagByte(IndexOf(AllTags, msg.type))>> \o MsgFields(msg)

\* The bytes after the tag byte read back; ok = FALSE is a thrown decode error.
ReadFields(tagIx, data) ==
    IF tagIx \notin 1..Len(AllTags) \/ Len(data) < 2 THEN [ok |-> FALSE, msg |-> Msg("", 0, "")]
    ELSE IF AllTags[tagIx] = "error"
         THEN IF Len(data) = 3 /\ data[3] \in 1..Len(ErrorTexts)
              THEN [ok |-> TRUE, msg |-> Msg("error", data[2], ErrorTexts[data[3]])]
              ELSE [ok |-> FALSE, msg |-> Msg("", 0, "")]
         ELSE IF Len(data) = 2
              THEN [ok |-> TRUE, msg |-> Msg(AllTags[tagIx], data[2], "")]
              ELSE [ok |-> FALSE, msg |-> Msg("", 0, "")]

\* Any encoding byte other than MessagePack takes the JSON branch.
decodeMessage(data, encoding) ==
    IF data = <<>> THEN [ok |-> FALSE, msg |-> Msg("", 0, "")]
    ELSE IF encoding = ENC_MessagePack
         THEN ReadFields(data[1], data)
         ELSE ReadFields(data[1] - JsonTagByte(0), data)

(***************************************************************************)
(* State.                                                                  *)
(***************************************************************************)
VARIABLES
    options,             \* this.options: authToken (bytes), useMessagePack, jsonFallback
    socket,              \* this.socket # null
    sessionId,           \* this.sessionId; <<>> is null
    encoding,            \* this.encoding
    pending,             \* keys of this.pending
    subscriptions,       \* keys of this.subscriptions
    requestId,           \* this.requestId
    readBuffer,          \* this.readBuffer
    handshakeCompleted,  \* this.handshakeCompleted
    connectState,        \* the promise of connectSocket: pending, resolved, rejected
    connectError,        \* the error it was rejected with
    transport,           \* the stream: connecting, open, errored, closed
    written,             \* what socket.write was given, in order
    wireFrames,          \* pieces the server sent that are not fully delivered
    wireOff,             \* bytes of Head(wireFrames) already delivered
    serverSent,          \* pieces the server has sent (the handshake response is the first)
    ops,                 \* per id: the operation awaiting its response ("" none)
    results,             \* per id: how the operation ended
    settled,             \* per id: every resolve/reject call made on its pending slot
    microtasks,          \* continuations of awaiting operations, in queue order
    callbacks,           \* subscription ids whose callback was invoked, in order
    issued,              \* the ids nextId returned, in order
    clobbered,           \* pending.set replaced an entry that was still outstanding
    nDispatched,         \* messages handed to dispatchMessage so far
    nDropped,            \* frames extracted so far whose payload failed to decode
    responses,           \* per id: messages other than `change` dispatched with that id
    goodSent,            \* frames of permitted size and decodable payload the server has sent
    oversizedSent,       \* the server has sent a header declaring an oversized payload
    stale,               \* the chunk that completed the handshake left bytes in the buffer
                         \* and handleData has not run since
    reassembled,         \* a frame was extracted whose bytes arrived in several chunks
    calls,               \* the operations invoked while this.socket was set: [type, id], in order
    wroteUnregistered,   \* send wrote a frame whose id was not yet in this.pending
    built                \* the frames built from given arguments and the headers
                         \* parsed from them: [msgType, encoding, payload, frame, header]

\* The WebSocket client (index.ts, class SquirrelDB).  Its fields carry the
\* prefix ws where the TCP client has a field of the same name.
VARIABLES
    wsOptions,           \* this.options: reconnect, maxReconnectAttempts
    sockets,             \* the WebSocket objects created, in order: the readyState of
                         \* each, "failed" once its error event has fired; this.ws is the last
    reconnectAttempts,   \* this.reconnectAttempts
    closed,              \* this.closed
    timers,              \* reconnection timers set and not yet fired
    connectWsState,      \* the promise of the first connectWs: pending, resolved, rejected
    wsPending,           \* keys of this.pending
    wsSubscriptions,     \* keys of this.subscriptions
    wsIssued,            \* ids generateId has returned so far
    wsOps,               \* per id: the operation awaiting its response ("" none)
    wsResults,           \* per id: how the operation ended
    wsSettled,           \* per id: every resolve/reject call made on its pending slot
    wsMicrotasks,        \* continuations of awaiting operations, in queue order
    wsCallbacks,         \* subscription ids whose callback was invoked, in order
    attemptsSinceOpen,   \* connections the timers have opened since the last open event
    openedAfterClose     \* a WebSocket was created after close() had been called

tcpVars == <<options, socket, sessionId, encoding, pending, subscriptions, requestId,
             readBuffer, handshakeCompleted, connectState, connectError, transport,
             written, wireFrames, wireOff, serverSent, ops, results, settled,
             microtasks, callbacks, issued, clobbered, nDispatched, nDropped,
             responses, goodSent, oversizedSent, stale, reassembled, calls,
             wroteUnregistered, built>>

wsVars == <<wsOptions, sockets, reconnectAttempts, closed, timers, connectWsState,
            wsPending, wsSubscriptions, wsIssued, wsOps, wsResults, wsSettled,
            wsMicrotasks, wsCallbacks, attemptsSinceOpen, openedAfterClose>>

vars == <<tcpVars, wsVars>>

Ids == 1..MaxRequests

(***************************************************************************)
(* Inputs: the options of connect, what the server may send.               *)
(***************************************************************************)
Tokens == {<<>>, <<116, 107>>}
SessionIds == {<<85, 14, 132, 0, 226, 155, 65, 212, 167, 22, 68, 102, 85, 68, 0, 0>>}
HandshakeStatuses == {HS_Success, HS_VersionMismatch, HS_AuthFailed, 3}
Encodings == {ENC_MessagePack, ENC_Json}

ServerMessages ==
    {Msg(t, i, "") : t \in Range(ServerTags) \ {"error"}, i \in Ids}
        \cup {Msg("error", i, e) : i \in Ids, e \in Range(ErrorTexts)}

FrameOf(msg, enc) ==
    buildFrame(IF msg.type = "change" THEN MT_Notification ELSE MT_Response,
               enc, encodeMessage(msg, enc))

GoodFrames == {FrameOf(m, e) : m \in ServerMessages, e \in Encodings}
\* A payload that does not decode under the encoding its header declares.
GarbledFrames ==
    {buildFrame(MT_Response, ENC_MessagePack, encodeMessage(Msg("result", 1, ""), ENC_Json))}
\* A header declaring a payload one byte over the maximum.
OversizedFrames == {U32BE(MAX_MESSAGE_SIZE + 3) \o <<MT_Response, ENC_MessagePack>>}
ServerFrames == GoodFrames \cup GarbledFrames \cup OversizedFrames

HandshakeResponse(status, flagsByte, sid) == <<status, PROTOCOL_VERSION, flagsByte>> \o sid

(***************************************************************************)
(* The bytes in flight.                                                    *)
(***************************************************************************)
RECURSIVE Flatten(_)
Flatten(frames) == IF frames = <<>> THEN <<>> ELSE Head(frames) \o Flatten(Tail(frames))

Wire == SliceFrom(Flatten(wireFrames), wireOff)

\* Taking k bytes off the wire: what stays in flight, and the pieces completed.
RECURSIVE Advance(_, _, _)
Advance(frames, off, k) ==
    IF frames = <<>> THEN [frames |-> <<>>, off |-> 0, done |-> <<>>]
    ELSE LET rem == Len(Head(frames)) - off IN
         IF k < rem THEN [frames |-> frames, off |-> off + k, done |-> <<>>]
         ELSE LET r == Advance(Tail(frames), 0, k - rem) IN
              [frames |-> r.frames, off |-> r.off, done |-> <<Head(frames)>> \o r.done]

\* The receive buffer holds exactly the delivered part of the piece in flight.
InSync ==
    readBuffer = (IF wireFrames = <<>> THEN <<>> ELSE Slice(Head(wireFrames), 0, wireOff))

(***************************************************************************)
(* Pending slots.  A slot's resolve and reject settle one promise; only    *)
(* the first call settles it and queues the awaiting continuation.  Every  *)
(* call is recorded in settled.                                            *)
(***************************************************************************)
Resolved(msg) == [kind |-> "resolve", tag |-> msg.type, from |-> msg.id, err |-> msg.error]
Rejected(text) == [kind |-> "reject", tag |-> "", from |-> 0, err |-> text]

Task(id, outcome) ==
    [id |-> id, kind |-> outcome.kind, tag |-> outcome.tag,
     from |-> outcome.from, err |-> outcome.err]

\* st carries the fields a handler reads and writes while it runs.
Settle(st, id, outcome) ==
    [st EXCEPT !.settled[id] = Append(@, outcome),
               !.microtasks = IF st.settled[id] = <<>>
                              THEN Append(@, Task(id, outcome)) ELSE @]

(***************************************************************************)
(* tcp.ts: dispatchMessage.                                                *)
(***************************************************************************)
\* Counting a message other than `change` under its id.
Seen(st, msg) ==
    IF msg.id \in DOMAIN st.responses THEN [st EXCEPT !.responses[msg.id] = @ + 1] ELSE st

\* Mutant: the entry is fulfilled and left in the table.
dispatchMessage_NoDelete(st, msg) ==
    IF msg.type = "change"
    THEN IF msg.id \in st.subscriptions
         THEN [st EXCEPT !.callbacks = Append(@, msg.id)]
         ELSE st
    ELSE IF msg.id \in st.pending
         THEN Settle(Seen(st, msg), msg.id, Resolved(msg))
         ELSE Seen(st, msg)

\* Mutant: a response fulfils the oldest outstanding request, whatever its id.
dispatchMessage_ByArrival(st, msg) ==
    IF msg.type = "change"
    THEN IF msg.id \in st.subscriptions
         THEN [st EXCEPT !.callbacks = Append(@, msg.id)]
         ELSE st
    ELSE IF st.pending # {}
         THEN LET oldest == CHOOSE i \in st.pending : \A j \in st.pending : i <= j IN
              Settle([Seen(st, msg) EXCEPT !.pending = @ \ {oldest}], oldest, Resolved(msg))
         ELSE Seen(st, msg)

\* Mutant: a change notification without a subscription is taken as a response.
dispatchMessage_FallThrough(st, msg) ==
    IF msg.type = "change" /\ msg.id \in st.subscriptions
    THEN [st EXCEPT !.callbacks = Append(@, msg.id)]
    ELSE IF msg.id \in st.pending
         THEN Settle([Seen(st, msg) EXCEPT !.pending = @ \ {msg.id}], msg.id, Resolved(msg))
         ELSE Seen(st, msg)

dispatchMessage(st, msg) ==
    IF msg.type = "change"
    THEN IF msg.id \in st.subscriptions
         THEN [st EXCEPT !.callbacks = Append(@, msg.id)]
         ELSE st
    ELSE IF msg.id \in st.pending
         THEN Settle([Seen(st, msg) EXCEPT !.pending = @ \ {msg.id}], msg.id, Resolved(msg))
         ELSE Seen(st, msg)

(***************************************************************************)
(* tcp.ts: processFrames.                                                  *)
(***************************************************************************)
FrameTooLarge(header) == header.payloadLength > MAX_MESSAGE_SIZE

\* One extracted frame: decode and dispatch, or log the decode error.
Extracted(st, payload, enc) ==
    LET d == decodeMessage(payload, enc) IN
    IF d.ok
    THEN dispatchMessage([st EXCEPT !.nDispatched = @ + 1], d.msg)
    ELSE [st EXCEPT !.nDropped = @ + 1]

\* Mutant: the frames behind the first one are dispatched before it.
RECURSIVE processFrames_LastFirst(_)
processFrames_LastFirst(st) ==
    IF Len(st.readBuffer) < FRAME_HEADER_LEN THEN st
    ELSE LET header == parseFrameHeader(st.readBuffer) IN
         IF FrameTooLarge(header) THEN st
         ELSE LET totalLength == 6 + header.payloadLength IN
              IF Len(st.readBuffer) < totalLength THEN st
              ELSE Extracted(processFrames_LastFirst(
                                 [st EXCEPT !.readBuffer = SliceFrom(@, totalLength)]),
                             Slice(st.readBuffer, 6, totalLength),
                             header.encoding)

\* Mutant: a payload that fails to decode ends the extraction.
RECURSIVE processFrames_StopOnError(_)
processFrames_StopOnError(st) ==
    IF Len(st.readBuffer) < FRAME_HEADER_LEN THEN st
    ELSE LET header == parseFrameHeader(st.readBuffer) IN
         IF FrameTooLarge(header) THEN st
         ELSE LET totalLength == 6 + header.payloadLength IN
              IF Len(st.readBuffer) < totalLength THEN st
              ELSE LET payload == Slice(st.readBuffer, 6, totalLength)
                       rest == [st EXCEPT !.readBuffer = SliceFrom(@, totalLength)]
                   IN  IF decodeMessage(payload, header.encoding).ok
                       THEN processFrames_StopOnError(Extracted(rest, payload, header.encoding))
                       ELSE Extracted(rest, payload, header.encoding)

RECURSIVE processFrames(_)
processFrames(st) ==
    IF Len(st.readBuffer) < FRAME_HEADER_LEN THEN st
    ELSE LET header == parseFrameHeader(st.readBuffer) IN
         IF FrameTooLarge(header) THEN st
         ELSE LET totalLength == 6 + header.payloadLength IN
              IF Len(st.readBuffer) < totalLength THEN st
              ELSE processFrames(
                       Extracted([st EXCEPT !.readBuffer = SliceFrom(@, totalLength)],
                                 Slice(st.readBuffer, 6, totalLength),
                                 header.encoding))

(***************************************************************************)
(* tcp.ts: handleClose.                                                    *)
(***************************************************************************)
RECURSIVE RejectAll(_, _, _)
RejectAll(st, ids, text) ==
    IF ids = {} THEN st
    ELSE LET id == CHOOSE i \in ids : \A j \in ids : i <= j IN
         RejectAll(Settle(st, id, Rejected(text)), ids \ {id}, text)

\* Mutant: the entries are failed and left in the table.
handleClose_NoClear(st) == RejectAll(st, st.pending, "Connection closed")

handleClose(st) ==
    [RejectAll(st, st.pending, "Connection closed") EXCEPT !.pending = {}]

\* The handler-local view of the state, and writing it back.
Here ==
    [readBuffer |-> readBuffer, pending |-> pending, subscriptions |-> subscriptions,
     settled |-> settled, microtasks |-> microtasks, callbacks |-> callbacks,
     nDispatched |-> nDispatched, nDropped |-> nDropped, responses |-> responses]

Store(st) ==
    /\ readBuffer' = st.readBuffer
    /\ pending' = st.pending
    /\ subscriptions' = st.subscriptions
    /\ settled' = st.settled
    /\ microtasks' = st.microtasks
    /\ callbacks' = st.callbacks
    /\ nDispatched' = st.nDispatched
    /\ nDropped' = st.nDropped
    /\ responses' = st.responses

(***************************************************************************)
(* tcp.ts: handleData.                                                     *)
(***************************************************************************)
RejectConnect(text) ==
    /\ connectState' = IF connectState = "pending" THEN "rejected" ELSE connectState
    /\ connectError' = IF connectState = "pending" THEN text ELSE connectError

ResolveConnect ==
    /\ connectState' = IF connectState = "pending" THEN "resolved" ELSE connectState
    /\ UNCHANGED connectError

EncodingFor(flags) == IF flags.messagepack THEN ENC_MessagePack ELSE ENC_Json

\* Mutant: the response is parsed as soon as any byte is buffered.
HandshakeBuffered_Any(buf) == Len(buf) >= 1

\* this.readBuffer.length >= 19
HandshakeBuffered(buf) == Len(buf) >= HANDSHAKE_RESPONSE_LEN

\* The handshake branch; buf is the buffer with the chunk appended.
handleHandshake(buf) ==
    IF HandshakeBuffered(buf)
    THEN LET response == parseHandshakeResponse(Slice(buf, 0, 19)) IN
         IF ~response.ok
         THEN /\ RejectConnect("Handshake response too short")
              /\ readBuffer' = buf
              /\ UNCHANGED <<sessionId, encoding, handshakeCompleted>>
         ELSE /\ readBuffer' = SliceFrom(buf, 19)
              /\ IF response.status = HS_VersionMismatch
                 THEN /\ RejectConnect("Version mismatch")
                      /\ UNCHANGED <<sessionId, encoding, handshakeCompleted>>
                 ELSE IF response.status = HS_AuthFailed
                 THEN /\ RejectConnect("Authentication failed")
                      /\ UNCHANGED <<sessionId, encoding, handshakeCompleted>>
                 ELSE IF response.status # HS_Success
                 THEN /\ RejectConnect("Unexpected status")
                      /\ UNCHANGED <<sessionId, encoding, handshakeCompleted>>
                 ELSE /\ sessionId' = uuidToString(response.sessionId)
                      /\ encoding' = EncodingFor(response.flags)
                      /\ handshakeCompleted' = TRUE
                      /\ ResolveConnect
    ELSE /\ readBuffer' = buf
         /\ UNCHANGED <<sessionId, encoding, handshakeCompleted, connectState, connectError>>

handleData(data) ==
    LET buf == readBuffer \o data IN
    IF ~handshakeCompleted
    THEN /\ handleHandshake(buf)
         /\ stale' = (handshakeCompleted' /\ readBuffer' # <<>>)
         /\ UNCHANGED <<pending, subscriptions, settled, microtasks, callbacks,
                        nDispatched, nDropped, responses, reassembled>>
    ELSE /\ Store(processFrames([Here EXCEPT !.readBuffer = buf]))
         /\ stale' = FALSE
         /\ reassembled' = (reassembled \/ (/\ ~stale
                                             /\ InSync
                                             /\ readBuffer # <<>>
                                             /\ nDispatched' + nDropped' > nDispatched + nDropped))
         /\ UNCHANGED <<sessionId, encoding, handshakeCompleted, connectState, connectError>>

(***************************************************************************)
(* tcp.ts: connectSocket's socket handlers, driven by the stream.          *)
(***************************************************************************)
\* Mutant: the stream opens and nothing is written.
Open_Silent ==
    /\ transport = "connecting"
    /\ transport' = "open"
    /\ UNCHANGED <<options, socket, sessionId, encoding, pending,
                   subscriptions, requestId, readBuffer, handshakeCompleted,
                   connectState, connectError, written, wireFrames, wireOff,
                   serverSent, ops, results, settled, microtasks, callbacks,
                   issued, clobbered, nDispatched, nDropped, responses,
                   goodSent, oversizedSent, stale, reassembled,
                   calls, wroteUnregistered, built>>
    /\ UNCHANGED wsVars

\* open: write the handshake.
Open ==
    /\ transport = "connecting"
    /\ transport' = "open"
    /\ written' = Append(written,
                         buildHandshake(options.authToken,
                                        [messagepack |-> options.useMessagePack,
                                         jsonFallback |-> options.jsonFallback]))
    /\ UNCHANGED <<options, socket, sessionId, encoding, pending,
                   subscriptions, requestId, readBuffer, handshakeCompleted,
                   connectState, connectError, wireFrames, wireOff,
                   serverSent, ops, results, settled, microtasks, callbacks,
                   issued, clobbered, nDispatched, nDropped, responses,
                   goodSent, oversizedSent, stale, reassembled,
                   calls, wroteUnregistered, built>>
    /\ UNCHANGED wsVars

\* data: a chunk of k bytes off the wire.
Deliver(k) ==
    /\ transport = "open"
    /\ microtasks = <<>>
    /\ k \in 1..Len(Wire)
    /\ LET a == Advance(wireFrames, wireOff, k) IN
       /\ wireFrames' = a.frames
       /\ wireOff' = a.off
       /\ handleData(Slice(Wire, 0, k))
    /\ UNCHANGED <<options, socket, requestId, transport, written,
                   serverSent, ops, results, issued, clobbered, goodSent,
                   oversizedSent,
                   calls, wroteUnregistered, built>>
    /\ UNCHANGED wsVars

\* close: handleClose.
TransportClose ==
    /\ transport \in {"open", "errored"}
    /\ microtasks = <<>>
    /\ transport' = "closed"
    /\ Store(handleClose(Here))
    /\ wireFrames' = <<>>
    /\ wireOff' = 0
    /\ UNCHANGED <<options, socket, sessionId, encoding, requestId,
                   handshakeCompleted, connectState, connectError, written,
                   serverSent, ops, results, issued, clobbered, goodSent,
                   oversizedSent, stale, reassembled,
                   calls, wroteUnregistered, built>>
    /\ UNCHANGED wsVars

\* error: reject the connect attempt if the handshake has not completed.
TransportError ==
    /\ transport \in {"connecting", "open"}
    /\ microtasks = <<>>
    /\ transport' = "errored"
    /\ IF ~handshakeCompleted
       THEN RejectConnect("Connection error")
       ELSE UNCHANGED <<connectState, connectError>>
    /\ wireFrames' = <<>>
    /\ wireOff' = 0
    /\ UNCHANGED <<options, socket, sessionId, encoding, pending,
                   subscriptions, requestId, readBuffer, handshakeCompleted,
                   written, serverSent, ops, results, settled, microtasks,
                   callbacks, issued, clobbered, nDispatched, nDropped,
                   responses, goodSent, oversizedSent, stale, reassembled,
                   calls, wroteUnregistered, built>>
    /\ UNCHANGED wsVars

(***************************************************************************)
(* The server: a handshake response, then frames.                          *)
(***************************************************************************)
ServerHandshake ==
    /\ transport = "open"
    /\ serverSent = 0
    /\ \E status \in HandshakeStatuses, flagsByte \in 0..3, sid \in SessionIds :
           wireFrames' = Append(wireFrames, HandshakeResponse(status, flagsByte, sid))
    /\ serverSent' = 1
    /\ UNCHANGED <<options, socket, sessionId, encoding, pending,
                   subscriptions, requestId, readBuffer, handshakeCompleted,
                   connectState, connectError, transport, written, wireOff,
                   ops, results, settled, microtasks, callbacks, issued,
                   clobbered, nDispatched, nDropped, responses, goodSent,
                   oversizedSent, stale, reassembled,
                   calls, wroteUnregistered, built>>
    /\ UNCHANGED wsVars

ServerFrame(f) ==
    /\ transport = "open"
    /\ serverSent \in 1..MaxServerFrames
    /\ Len(wireFrames) < MaxWire
    /\ wireFrames' = Append(wireFrames, f)
    /\ serverSent' = serverSent + 1
    /\ goodSent' = goodSent + (IF f \in GoodFrames THEN 1 ELSE 0)
    /\ oversizedSent' = (oversizedSent \/ f \in OversizedFrames)
    /\ UNCHANGED <<options, socket, sessionId, encoding, pending,
                   subscriptions, requestId, readBuffer, handshakeCompleted,
                   connectState, connectError, transport, written, wireOff,
                   ops, results, settled, microtasks, callbacks, issued,
                   clobbered, nDispatched, nDropped, responses, stale,
                   reassembled,
                   calls, wroteUnregistered, built>>
    /\ UNCHANGED wsVars

\* Mutant: the session id is forgotten with the socket.
getSessionId_WhileConnected == IF socket THEN sessionId ELSE <<>>

\* getSessionId(); <<>> is null.
getSessionId == sessionId

(***************************************************************************)
(* tcp.ts: nextId, send and the operations.                                *)
(***************************************************************************)
\* Mutant: the increment is lost once the first id is out.
nextId_Reused == IF requestId = 0 THEN 1 ELSE requestId

\* ++this.requestId: the new value of the counter, which is the id.
nextId == requestId + 1

QueryOps == {"query", "queryRaw", "insert", "update", "delete", "listCollections"}
Operations == QueryOps \cup {"subscribe", "ping"}

\* The tag of the request an operation sends.
RequestTag(op) ==
    IF op = "queryRaw" THEN "query"
    ELSE IF op = "listCollections" THEN "listcollections"
    ELSE op

\* Mutant: requests are always framed in the default encoding.
RequestFrame_Default(tag, id) ==
    buildFrame(MT_Request, ENC_MessagePack, encodeMessage(Msg(tag, id, ""), ENC_MessagePack))

RequestFrame(tag, id) ==
    buildFrame(MT_Request, encoding, encodeMessage(Msg(tag, id, ""), encoding))

\* Mutant: the frame is written before the entry is registered.
send_WriteFirst(tag, id, encodable) ==
    IF ~socket
    THEN /\ Store(Settle(Here, id, Rejected("Not connected")))
         /\ UNCHANGED <<written, clobbered, wroteUnregistered>>
    ELSE IF ~encodable
    THEN /\ Store(Settle(Here, id, Rejected("Not encodable")))
         /\ UNCHANGED <<written, clobbered, wroteUnregistered>>
    ELSE /\ written' = Append(written, RequestFrame(tag, id))
         /\ wroteUnregistered' = (wroteUnregistered \/ id \notin Here.pending)
         /\ Store([Here EXCEPT !.pending = @ \cup {id}])
         /\ clobbered' = (clobbered \/ id \in pending)

\* send(msg) for msg = {type: tag, id, ...}: reject without a socket; else
\* register the entry, then encode, frame and write.  encodable says whether
\* the serialiser accepts the message (pack and JSON.stringify throw on
\* values they cannot represent, which the caller's data may hold); the
\* exception leaves the promise executor and rejects the promise.
send(tag, id, encodable) ==
    IF ~socket
    THEN /\ Store(Settle(Here, id, Rejected("Not connected")))
         /\ UNCHANGED <<written, clobbered, wroteUnregistered>>
    ELSE LET registered == [Here EXCEPT !.pending = @ \cup {id}] IN
         /\ clobbered' = (clobbered \/ id \in pending)
         /\ IF encodable
            THEN /\ Store(registered)
                 /\ written' = Append(written, RequestFrame(tag, id))
                 /\ wroteUnregistered' = (wroteUnregistered \/ id \notin registered.pending)
            ELSE /\ Store(Settle(registered, id, Rejected("Not encodable")))
                 /\ UNCHANGED <<written, wroteUnregistered>>

\* An operation up to its await: nextId, then send.
Invoke(op, encodable) ==
    /\ connectState = "resolved"
    /\ requestId < MaxRequests
    /\ requestId' = nextId
    /\ issued' = Append(issued, nextId)
    /\ ops' = [ops EXCEPT ![nextId] = op]
    /\ results' = [results EXCEPT ![nextId] = [st |-> "pending", err |-> ""]]
    /\ calls' = IF socket /\ encodable
                THEN Append(calls, [type |-> RequestTag(op), id |-> nextId])
                ELSE calls
    /\ send(RequestTag(op), nextId, encodable)
    /\ UNCHANGED <<options, socket, sessionId, encoding, handshakeCompleted,
                   connectState, connectError, transport, wireFrames,
                   wireOff, serverSent, goodSent, oversizedSent, stale,
                   reassembled, built>>
    /\ UNCHANGED wsVars

\* An operation whose arguments the serialiser accepts.
Request(op) == Invoke(op, TRUE)

Ok == [st |-> "ok", err |-> ""]
Fail(text) == [st |-> "fail", err |-> text]

\* Mutant: every response that is not an error is taken as the result.
queryResume_AnyResult(t) ==
    IF t.tag = "error" THEN Fail(t.err) ELSE Ok

\* query, queryRaw, insert, update, delete, listCollections after the await.
queryResume(t) ==
    IF t.tag = "error" THEN Fail(t.err)
    ELSE IF t.tag = "result" THEN Ok
    ELSE Fail("Unexpected response")

\* ping after the await.
pingResume(t) ==
    IF t.tag # "pong" THEN Fail("Unexpected response") ELSE Ok

\* Mutant: the callback is registered whatever the response.
subscribeResume_Always(t, subs) ==
    [result |-> IF t.tag = "error" THEN Fail(t.err) ELSE Ok,
     subscriptions |-> subs \cup {t.id}]

\* subscribe after the await: the outcome and the subscription table.
subscribeResume(t, subs) ==
    IF t.tag = "error"
    THEN [result |-> Fail(t.err), subscriptions |-> subs]
    ELSE [result |-> Ok, subscriptions |-> subs \cup {t.id}]

\* The continuation at the head of the microtask queue runs.
Resume ==
    /\ microtasks # <<>>
    /\ LET t == Head(microtasks)
           op == ops[t.id]
       IN  /\ microtasks' = Tail(microtasks)
           /\ IF t.kind = "reject"
              THEN /\ results' = [results EXCEPT ![t.id] = Fail(t.err)]
                   /\ UNCHANGED subscriptions
              ELSE IF op = "subscribe"
              THEN LET r == subscribeResume(t, subscriptions) IN
                   /\ results' = [results EXCEPT ![t.id] = r.result]
                   /\ subscriptions' = r.subscriptions
              ELSE IF op = "ping"
              THEN /\ results' = [results EXCEPT ![t.id] = pingResume(t)]
                   /\ UNCHANGED subscriptions
              ELSE /\ results' = [results EXCEPT ![t.id] = queryResume(t)]
                   /\ UNCHANGED subscriptions
    /\ UNCHANGED <<options, socket, sessionId, encoding, pending, requestId,
                   readBuffer, handshakeCompleted, connectState,
                   connectError, transport, written, wireFrames, wireOff,
                   serverSent, ops, settled, callbacks, issued, clobbered,
                   nDispatched, nDropped, responses, goodSent, oversizedSent,
                   stale, reassembled,
                   calls, wroteUnregistered, built>>
    /\ UNCHANGED wsVars

\* Mutant: unsubscribe registers an entry for its request, as send does.
Unsubscribe_Registered(id) ==
    /\ connectState = "resolved"
    /\ ops[id] = "subscribe"
    /\ subscriptions' = subscriptions \ {id}
    /\ IF socket
       THEN /\ Len(written) < MaxWritten
            /\ pending' = pending \cup {id}
            /\ written' = Append(written, RequestFrame("unsubscribe", id))
            /\ calls' = Append(calls, [type |-> "unsubscribe", id |-> id])
       ELSE UNCHANGED <<written, calls, pending>>
    /\ UNCHANGED <<options, socket, sessionId, encoding, requestId,
                   readBuffer, handshakeCompleted, connectState,
                   connectError, transport, wireFrames, wireOff, serverSent,
                   ops, results, settled, microtasks, callbacks, issued,
                   clobbered, nDispatched, nDropped, responses, goodSent,
                   oversizedSent, stale, reassembled,
                   wroteUnregistered, built>>
    /\ UNCHANGED wsVars

\* unsubscribe(subscriptionId).
Unsubscribe(id) ==
    /\ connectState = "resolved"
    /\ ops[id] = "subscribe"
    /\ subscriptions' = subscriptions \ {id}
    /\ IF socket
       THEN /\ Len(written) < MaxWritten
            /\ written' = Append(written, RequestFrame("unsubscribe", id))
            /\ calls' = Append(calls, [type |-> "unsubscribe", id |-> id])
       ELSE UNCHANGED <<written, calls>>
    /\ UNCHANGED <<options, socket, sessionId, encoding, pending, requestId,
                   readBuffer, handshakeCompleted, connectState,
                   connectError, transport, wireFrames, wireOff, serverSent,
                   ops, results, settled, microtasks, callbacks, issued,
                   clobbered, nDispatched, nDropped, responses, goodSent,
                   oversizedSent, stale, reassembled,
                   wroteUnregistered, built>>
    /\ UNCHANGED wsVars

\* close(): clear the subscriptions, end the socket, forget it.
Close ==
    /\ connectState = "resolved"
    /\ subscriptions' = {}
    /\ socket' = FALSE
    /\ UNCHANGED <<options, sessionId, encoding, pending, requestId,
                   readBuffer, handshakeCompleted, connectState,
                   connectError, transport, written, wireFrames, wireOff,
                   serverSent, ops, results, settled, microtasks, callbacks,
                   issued, clobbered, nDispatched, nDropped, responses,
                   goodSent, oversizedSent, stale, reassembled,
                   calls, wroteUnregistered, built>>
    /\ UNCHANGED wsVars

(***************************************************************************)
(* The specifications.  Init is the instance as connect() leaves it when   *)
(* it first yields: constructed, connectSocket called, the stream          *)
(* connecting.  The specifications share every action and differ in the    *)
(* inputs they draw: the options of connect, the chunk sizes the stream    *)
(* delivers, the frames the server sends, the operations the user calls.   *)
(***************************************************************************)
DefaultOptions == [authToken |-> <<>>, useMessagePack |-> TRUE, jsonFallback |-> TRUE]

\* No WebSocket client has been constructed.
InitNoWs ==
    /\ wsOptions = [reconnect |-> TRUE, maxReconnectAttempts |-> 0]
    /\ sockets = <<>>
    /\ reconnectAttempts = 0
    /\ closed = FALSE
    /\ timers = 0
    /\ connectWsState = "pending"
    /\ wsPending = {}
    /\ wsSubscriptions = {}
    /\ wsIssued = 0
    /\ wsOps = <<>>
    /\ wsResults = <<>>
    /\ wsSettled = <<>>
    /\ wsMicrotasks = <<>>
    /\ wsCallbacks = <<>>
    /\ attemptsSinceOpen = 0
    /\ openedAfterClose = FALSE

InitTcp(optionSet) ==
    /\ options \in optionSet
    /\ socket = TRUE
    /\ sessionId = <<>>
    /\ encoding = ENC_MessagePack
    /\ pending = {}
    /\ subscriptions = {}
    /\ requestId = 0
    /\ readBuffer = <<>>
    /\ handshakeCompleted = FALSE
    /\ connectState = "pending"
    /\ connectError = ""
    /\ transport = "connecting"
    /\ written = <<>>
    /\ wireFrames = <<>>
    /\ wireOff = 0
    /\ serverSent = 0
    /\ ops = [i \in Ids |-> ""]
    /\ results = [i \in Ids |-> [st |-> "none", err |-> ""]]
    /\ settled = [i \in Ids |-> <<>>]
    /\ microtasks = <<>>
    /\ callbacks = <<>>
    /\ issued = <<>>
    /\ clobbered = FALSE
    /\ nDispatched = 0
    /\ nDropped = 0
    /\ responses = [i \in Ids |-> 0]
    /\ goodSent = 0
    /\ oversizedSent = FALSE
    /\ stale = FALSE
    /\ reassembled = FALSE
    /\ calls = <<>>
    /\ wroteUnregistered = FALSE
    /\ built = <<>>

InitWith(optionSet) == InitTcp(optionSet) /\ InitNoWs

\* Chunks that end where a piece ends: the piece in flight, or everything in flight.
BoundaryCuts ==
    IF wireFrames = <<>> THEN {} ELSE {Len(Head(wireFrames)) - wireOff, Len(Wire)}
\* Chunks of every size.
AllCuts == 1..Len(Wire)

\* Well-formed frames in the binary encoding.
SessionFrames == {FrameOf(m, ENC_MessagePack) : m \in ServerMessages}
\* One operation of each kind of continuation.
SessionOps == {"query", "subscribe", "ping"}

\* Frames for the two requests in both encodings, and the malformed ones.
FramingMessages ==
    {m \in ServerMessages :
        \/ m.id = 1 /\ m.type \in {"change", "subscribed", "error"}
        \/ m.id = 2 /\ m.type = "result"}
FramingFrames ==
    {FrameOf(m, e) : m \in FramingMessages, e \in Encodings}
        \cup GarbledFrames \cup OversizedFrames

Init == InitWith({DefaultOptions})

\* The session: every continuation, every server message, whole frames per chunk.
Next ==
    \/ Open
    \/ \E k \in BoundaryCuts : Deliver(k)
    \/ TransportClose
    \/ TransportError
    \/ ServerHandshake
    \/ \E f \in SessionFrames : ServerFrame(f)
    \/ \E op \in SessionOps : Request(op)
    \/ Resume
    \/ \E id \in Ids : Unsubscribe(id)
    \/ Close
Spec == Init /\ [][Next]_vars

\* The framing: frames well-formed or not, split every way.
NextFraming ==
    \/ Open
    \/ \E k \in AllCuts : Deliver(k)
    \/ TransportClose
    \/ TransportError
    \/ ServerHandshake
    \/ \E f \in FramingFrames : ServerFrame(f)
    \/ \E op \in {"subscribe"} : Request(op)
    \/ Resume
    \/ \E id \in Ids : Unsubscribe(id)
    \/ Close
SpecFraming == Init /\ [][NextFraming]_vars

\* The operations: every operation of the client against every server message.
NextOps ==
    \/ Open
    \/ \E k \in BoundaryCuts : Deliver(k)
    \/ TransportClose
    \/ TransportError
    \/ ServerHandshake
    \/ \E f \in SessionFrames : ServerFrame(f)
    \/ \E op \in Operations : Request(op)
    \/ Resume
    \/ \E id \in Ids : Unsubscribe(id)
    \/ Close
SpecOps == Init /\ [][NextOps]_vars

\* What a server that keeps talking after its handshake response may send:
\* another handshake response, or frames.
OtherSessionId == [i \in 1..16 |-> i]
HandshakePieces ==
    {HandshakeResponse(HS_Success, 1, sid) : sid \in SessionIds \cup {OtherSessionId}}
        \cup {FrameOf(Msg(t, 1, ""), ENC_MessagePack) : t \in {"subscribed", "change"}}

\* The handshake: every status, split every way, and whatever follows it.
NextHandshake ==
    \/ Open
    \/ \E k \in AllCuts : Deliver(k)
    \/ TransportClose
    \/ TransportError
    \/ ServerHandshake
    \/ \E f \in HandshakePieces : ServerFrame(f)
    \/ \E op \in {"subscribe"} : Request(op)
    \/ Resume
    \/ \E id \in Ids : Unsubscribe(id)
    \/ Close
SpecHandshake == Init /\ [][NextHandshake]_vars

\* Payloads of 0, 1, 3, 254 and 300 bytes: the length field of their frames
\* is 2, 3, 5, 256 and 302.
Payloads == {[i \in 1..n |-> (7 * i) % 256] : n \in {0, 1, 3, 254, 300}}
MessageTypes == {MT_Request, MT_Response, MT_Notification}

\* A frame built and taken apart again, as a sender and a receiver of frames
\* do it: buildFrame, parseFrameHeader on the first 6 bytes.
FrameBuilt(msgType, enc, payload) ==
    /\ Len(built) < MaxBuilt
    /\ LET frame == buildFrame(msgType, enc, payload) IN
       built' = Append(built, [msgType |-> msgType, encoding |-> enc, payload |-> payload,
                               frame |-> frame,
                               header |-> parseFrameHeader(Slice(frame, 0, 6))])
    /\ UNCHANGED <<options, socket, sessionId, encoding, pending, subscriptions,
                   requestId, readBuffer, handshakeCompleted, connectState,
                   connectError, transport, written, wireFrames, wireOff,
                   serverSent, ops, results, settled, microtasks, callbacks,
                   issued, clobbered, nDispatched, nDropped, responses,
                   goodSent, oversizedSent, stale, reassembled, calls,
                   wroteUnregistered>>
    /\ UNCHANGED wsVars

\* The frame functions on their own: every type, encoding and payload.
NextCodec ==
    \/ \E t \in MessageTypes, e \in Encodings, p \in Payloads : FrameBuilt(t, e, p)
SpecCodec == Init /\ [][NextCodec]_vars

\* The options of connect: a token of no, two and 258 bytes, each flag on or off.
LongToken == [i \in 1..258 |-> 97]
OptionSets ==
    [authToken : Tokens \cup {LongToken}, useMessagePack : BOOLEAN, jsonFallback : BOOLEAN]
OptionFrames == {FrameOf(Msg("subscribed", 1, ""), e) : e \in Encodings}

InitOptions == InitWith(OptionSets)

\* The options: every option of connect against every handshake response.
NextOptions ==
    \/ Open
    \/ \E k \in BoundaryCuts : Deliver(k)
    \/ TransportClose
    \/ TransportError
    \/ ServerHandshake
    \/ \E f \in OptionFrames : ServerFrame(f)
    \/ \E op \in {"subscribe"} : Request(op)
    \/ Resume
    \/ \E id \in Ids : Unsubscribe(id)
    \/ Close
SpecOptions == InitOptions /\ [][NextOptions]_vars

\* Headers whose length field is 0 or 1, less than the type and encoding
\* bytes it counts.
ShortFrames == {U32BE(n) \o <<MT_Response, ENC_MessagePack>> : n \in {0, 1}}
ShortStreamFrames ==
    ShortFrames \cup {FrameOf(Msg(t, 1, ""), ENC_MessagePack) : t \in {"subscribed", "change"}}

\* The malformed length: headers that declare less than their own two bytes.
NextShort ==
    \/ Open
    \/ \E k \in AllCuts : Deliver(k)
    \/ TransportClose
    \/ TransportError
    \/ ServerHandshake
    \/ \E f \in ShortStreamFrames : ServerFrame(f)
    \/ \E op \in {"subscribe"} : Request(op)
    \/ Resume
    \/ \E id \in Ids : Unsubscribe(id)
    \/ Close
SpecShort == Init /\ [][NextShort]_vars

\* Tokens up to the first length the 2-byte length field cannot hold.
ConnectTokens == {[i \in 1..n |-> 97] : n \in {0, 2, 258, 65535, 65536}}
ConnectOptions ==
    [authToken : ConnectTokens, useMessagePack : BOOLEAN, jsonFallback : BOOLEAN]

InitConnect == InitWith(ConnectOptions)

\* The connect attempt alone, with every option.
NextConnect ==
    \/ Open
    \/ \E k \in BoundaryCuts : Deliver(k)
    \/ TransportClose
    \/ TransportError
    \/ ServerHandshake
SpecConnect == InitConnect /\ [][NextConnect]_vars

\* One iteration of the loop of processFrames that neither leaves the loop
\* nor returns: a frame is cut off the buffer and decoded and dispatched, or
\* logged.
ExtractFrame ==
    /\ Len(readBuffer) >= FRAME_HEADER_LEN
    /\ LET header == parseFrameHeader(readBuffer)
           totalLength == 6 + header.payloadLength
       IN  /\ ~FrameTooLarge(header)
           /\ Len(readBuffer) >= totalLength
           /\ Store(Extracted([Here EXCEPT !.readBuffer = SliceFrom(@, totalLength)],
                              Slice(readBuffer, 6, totalLength),
                              header.encoding))
    /\ UNCHANGED <<options, socket, sessionId, encoding, requestId,
                   handshakeCompleted, connectState, connectError, transport,
                   written, wireFrames, wireOff, serverSent, ops, results,
                   issued, clobbered, goodSent, oversizedSent, stale,
                   reassembled, calls, wroteUnregistered, built>>
    /\ UNCHANGED wsVars

\* What the buffer may hold when processFrames is entered: up to MaxPieces
\* pieces, each a frame (well-formed, undecodable, oversized, or with a
\* length field of 0 or 1) or the beginning of one.
LoopPieces ==
    ShortStreamFrames \cup GarbledFrames \cup OversizedFrames \cup {<<0, 0, 0>>}
RECURSIVE PieceSeqs(_)
PieceSeqs(n) ==
    IF n = 0 THEN {<<>>}
    ELSE LET shorter == PieceSeqs(n - 1) IN
         shorter \cup {Append(q, piece) : q \in shorter, piece \in LoopPieces}
LoopBuffers == {Flatten(q) : q \in PieceSeqs(MaxPieces)}

\* A Ready session entering processFrames: the handshake is done and the
\* data handler has appended a chunk to the buffer.
InitLoop ==
    /\ InitNoWs
    /\ options = DefaultOptions
    /\ socket = TRUE
    /\ sessionId = uuidToString(CHOOSE sid \in SessionIds : TRUE)
    /\ encoding = ENC_MessagePack
    /\ pending = {}
    /\ subscriptions = {}
    /\ requestId = 0
    /\ readBuffer \in LoopBuffers
    /\ handshakeCompleted = TRUE
    /\ connectState = "resolved"
    /\ connectError = ""
    /\ transport = "open"
    /\ written = <<buildHandshake(DefaultOptions.authToken,
                                   [messagepack |-> TRUE, jsonFallback |-> TRUE])>>
    /\ wireFrames = <<>>
    /\ wireOff = 0
    /\ serverSent = 1
    /\ ops = [i \in Ids |-> ""]
    /\ results = [i \in Ids |-> [st |-> "none", err |-> ""]]
    /\ settled = [i \in Ids |-> <<>>]
    /\ microtasks = <<>>
    /\ callbacks = <<>>
    /\ issued = <<>>
    /\ clobbered = FALSE
    /\ nDispatched = 0
    /\ nDropped = 0
    /\ responses = [i \in Ids |-> 0]
    /\ goodSent = 0
    /\ oversizedSent = FALSE
    /\ stale = FALSE
    /\ reassembled = FALSE
    /\ calls = <<>>
    /\ wroteUnregistered = FALSE
    /\ built = <<>>

\* The loop of processFrames, one iteration a step, on every such buffer.
NextLoop ==
    \/ ExtractFrame
SpecLoop == InitLoop /\ [][NextLoop]_vars

\* Documents and queries the serialiser accepts, and ones it does not.
EncodeOps == {"insert", "subscribe"}
EncodeFrames == {FrameOf(Msg(t, 1, ""), ENC_MessagePack) : t \in {"result", "subscribed"}}

\* The arguments: operations called with data that can and cannot be encoded.
NextEncode ==
    \/ Open
    \/ \E k \in BoundaryCuts : Deliver(k)
    \/ TransportClose
    \/ TransportError
    \/ ServerHandshake
    \/ \E f \in EncodeFrames : ServerFrame(f)
    \/ \E op \in EncodeOps, encodable \in BOOLEAN : Invoke(op, encodable)
    \/ Resume
    \/ \E id \in Ids : Unsubscribe(id)
    \/ Close
SpecEncode == Init /\ [][NextEncode]_vars

(***************************************************************************)
(* index.ts: the WebSocket client.  Every event of a WebSocket and every   *)
(* timer is a task of its own; a task runs when no continuation is queued. *)
(***************************************************************************)
WsIds == 1..MaxWsRequests

\* this.ws: the WebSocket created last; 0 is null.
ws == Len(sockets)

WsOptionSets == [reconnect : BOOLEAN, maxReconnectAttempts : 0..MaxAttempts]

\* The messages the server may send: responses and notifications for the ids.
WsMessages == {Msg(t, i, "") : t \in {"result", "subscribed", "change"}, i \in WsIds}

WsHere ==
    [pending |-> wsPending, subscriptions |-> wsSubscriptions, settled |-> wsSettled,
     microtasks |-> wsMicrotasks, callbacks |-> wsCallbacks]

WsStore(st) ==
    /\ wsPending' = st.pending
    /\ wsSubscriptions' = st.subscriptions
    /\ wsSettled' = st.settled
    /\ wsMicrotasks' = st.microtasks
    /\ wsCallbacks' = st.callbacks

\* new WebSocket(this.url), assigned to this.ws.
connectWs == sockets' = Append(sockets, "connecting")

\* onopen.
WsOpen(i) ==
    /\ wsMicrotasks = <<>>
    /\ i \in DOMAIN sockets
    /\ sockets[i] = "connecting"
    /\ sockets' = [sockets EXCEPT ![i] = "open"]
    /\ reconnectAttempts' = 0
    /\ attemptsSinceOpen' = 0
    /\ connectWsState' = IF i = 1 /\ connectWsState = "pending"
                         THEN "resolved" ELSE connectWsState
    /\ UNCHANGED <<wsOptions, closed, timers, wsPending, wsSubscriptions, wsIssued,
                   wsOps, wsResults, wsSettled, wsMicrotasks, wsCallbacks,
                   openedAfterClose>>
    /\ UNCHANGED tcpVars

\* onerror; the close event of the socket follows.
WsError(i) ==
    /\ wsMicrotasks = <<>>
    /\ i \in DOMAIN sockets
    /\ sockets[i] \in {"connecting", "open"}
    /\ sockets' = [sockets EXCEPT ![i] = "failed"]
    /\ connectWsState' = IF reconnectAttempts = 0 /\ i = 1 /\ connectWsState = "pending"
                         THEN "rejected" ELSE connectWsState
    /\ UNCHANGED <<wsOptions, reconnectAttempts, closed, timers, wsPending,
                   wsSubscriptions, wsIssued, wsOps, wsResults, wsSettled,
                   wsMicrotasks, wsCallbacks, attemptsSinceOpen, openedAfterClose>>
    /\ UNCHANGED tcpVars

\* Mutant: reconnection is attempted however many attempts were made.
ShouldReconnect_Unlimited == wsOptions.reconnect

\* this.options.reconnect && this.reconnectAttempts < this.options.maxReconnectAttempts
ShouldReconnect ==
    wsOptions.reconnect /\ reconnectAttempts < wsOptions.maxReconnectAttempts

\* handleDisconnect.
handleDisconnect ==
    IF closed
    THEN UNCHANGED <<wsPending, wsSubscriptions, wsSettled, wsMicrotasks, wsCallbacks,
                     reconnectAttempts, timers>>
    ELSE /\ WsStore([RejectAll(WsHere, wsPending, "Connection closed")
                        EXCEPT !.pending = {}])
         /\ IF ShouldReconnect
            THEN /\ reconnectAttempts' = reconnectAttempts + 1
                 /\ timers' = timers + 1
            ELSE UNCHANGED <<reconnectAttempts, timers>>

\* onclose.
WsCloseEvent(i) ==
    /\ wsMicrotasks = <<>>
    /\ i \in DOMAIN sockets
    /\ sockets[i] \in {"open", "failed", "closing"}
    /\ sockets' = [sockets EXCEPT ![i] = "closed"]
    /\ handleDisconnect
    /\ UNCHANGED <<wsOptions, closed, connectWsState, wsIssued, wsOps, wsResults,
                   attemptsSinceOpen, openedAfterClose>>
    /\ UNCHANGED tcpVars

\* The reconnection timer fires: this.connectWs().catch(() => {}).
WsTimer ==
    /\ wsMicrotasks = <<>>
    /\ timers > 0
    /\ Len(sockets) < MaxSockets
    /\ timers' = timers - 1
    /\ connectWs
    /\ attemptsSinceOpen' = attemptsSinceOpen + 1
    /\ openedAfterClose' = (openedAfterClose \/ closed)
    /\ UNCHANGED <<wsOptions, reconnectAttempts, closed, connectWsState, wsPending,
                   wsSubscriptions, wsIssued, wsOps, wsResults, wsSettled,
                   wsMicrotasks, wsCallbacks>>
    /\ UNCHANGED tcpVars

\* handleMessage for text that parses to msg; text that does not parse is
\* ignored and changes nothing.
handleMessage(st, msg) ==
    IF msg.type = "change"
    THEN IF msg.id \in st.subscriptions
         THEN [st EXCEPT !.callbacks = Append(@, msg.id)]
         ELSE st
    ELSE IF msg.id \in st.pending
         THEN Settle([st EXCEPT !.pending = @ \ {msg.id}], msg.id, Resolved(msg))
         ELSE st

\* onmessage.
WsMessage(i, msg) ==
    /\ wsMicrotasks = <<>>
    /\ i \in DOMAIN sockets
    /\ sockets[i] = "open"
    /\ Len(wsCallbacks) < MaxWsCallbacks
    /\ WsStore(handleMessage(WsHere, msg))
    /\ UNCHANGED <<wsOptions, sockets, reconnectAttempts, closed, timers,
                   connectWsState, wsIssued, wsOps, wsResults, attemptsSinceOpen,
                   openedAfterClose>>
    /\ UNCHANGED tcpVars

\* send(msg) of the WebSocket client for msg = {id, ...}.
wsSend(id) ==
    IF ws = 0 \/ sockets[ws] # "open"
    THEN WsStore(Settle(WsHere, id, Rejected("Not connected")))
    ELSE WsStore([WsHere EXCEPT !.pending = @ \cup {id}])

\* query and subscribe up to the await: generateId, then send.
WsInvoke(op) ==
    /\ connectWsState = "resolved"
    /\ wsIssued < MaxWsRequests
    /\ wsIssued' = wsIssued + 1
    /\ wsOps' = [wsOps EXCEPT ![wsIssued + 1] = op]
    /\ wsResults' = [wsResults EXCEPT ![wsIssued + 1] = [st |-> "pending", err |-> ""]]
    /\ wsSend(wsIssued + 1)
    /\ UNCHANGED <<wsOptions, sockets, reconnectAttempts, closed, timers,
                   connectWsState, attemptsSinceOpen, openedAfterClose>>
    /\ UNCHANGED tcpVars

\* The continuation at the head of the queue runs: query or subscribe after
\* the await.
WsResume ==
    /\ wsMicrotasks # <<>>
    /\ LET t == Head(wsMicrotasks) IN
       /\ wsMicrotasks' = Tail(wsMicrotasks)
       /\ IF t.kind = "reject"
          THEN /\ wsResults' = [wsResults EXCEPT ![t.id] = Fail(t.err)]
               /\ UNCHANGED wsSubscriptions
          ELSE IF wsOps[t.id] = "subscribe"
          THEN LET r == subscribeResume(t, wsSubscriptions) IN
               /\ wsResults' = [wsResults EXCEPT ![t.id] = r.result]
               /\ wsSubscriptions' = r.subscriptions
          ELSE /\ wsResults' = [wsResults EXCEPT ![t.id] = queryResume(t)]
               /\ UNCHANGED wsSubscriptions
    /\ UNCHANGED <<wsOptions, sockets, reconnectAttempts, closed, timers,
                   connectWsState, wsPending, wsIssued, wsOps, wsSettled,
                   wsCallbacks, attemptsSinceOpen, openedAfterClose>>
    /\ UNCHANGED tcpVars

\* close().
WsClose ==
    /\ connectWsState = "resolved"
    /\ closed' = TRUE
    /\ wsSubscriptions' = {}
    /\ sockets' = [sockets EXCEPT ![ws] = IF @ \in {"connecting", "open"}
                                          THEN "closing" ELSE @]
    /\ UNCHANGED <<wsOptions, reconnectAttempts, timers, connectWsState, wsPending,
                   wsIssued, wsOps, wsResults, wsSettled, wsMicrotasks,
                   wsCallbacks, attemptsSinceOpen, openedAfterClose>>
    /\ UNCHANGED tcpVars

\* The WebSocket client as connect() leaves it when it first yields:
\* constructed with its options, connectWs called.
InitWs ==
    /\ InitTcp({DefaultOptions})
    /\ wsOptions \in WsOptionSets
    /\ sockets = <<"connecting">>
    /\ reconnectAttempts = 0
    /\ closed = FALSE
    /\ timers = 0
    /\ connectWsState = "pending"
    /\ wsPending = {}
    /\ wsSubscriptions = {}
    /\ wsIssued = 0
    /\ wsOps = [i \in WsIds |-> ""]
    /\ wsResults = [i \in WsIds |-> [st |-> "none", err |-> ""]]
    /\ wsSettled = [i \in WsIds |-> <<>>]
    /\ wsMicrotasks = <<>>
    /\ wsCallbacks = <<>>
    /\ attemptsSinceOpen = 0
    /\ openedAfterClose = FALSE

NextWs ==
    \/ \E i \in 1..MaxSockets : WsOpen(i)
    \/ \E i \in 1..MaxSockets : WsError(i)
    \/ \E i \in 1..MaxSockets : WsCloseEvent(i)
    \/ WsTimer
    \/ \E i \in 1..MaxSockets, msg \in WsMessages : WsMessage(i, msg)
    \/ \E op \in {"query", "subscribe"} : WsInvoke(op)
    \/ WsResume
    \/ WsClose
SpecWs == InitWs /\ [][NextWs]_vars

\* What the runtime guarantees to happen: a queued continuation runs, and a
\* socket that failed or is being closed reports its close.
FairnessWs ==
    /\ WF_vars(WsResume)
    /\ WF_vars(\E i \in DOMAIN sockets :
                   sockets[i] \in {"failed", "closing"} /\ WsCloseEvent(i))

\* The WebSocket client under that guarantee.
SpecWsLive == InitWs /\ [][NextWs]_vars /\ FairnessWs

\* What the runtime guarantees to happen: a queued continuation runs, and a
\* stream that was ended by close() or that reported an error reports its
\* close.
Fairness ==
    /\ WF_vars(Resume)
    /\ WF_vars((~socket \/ transport = "errored") /\ TransportClose)

\* The session under that guarantee.
SpecLive == Init /\ [][Next]_vars /\ Fairness

(***************************************************************************)
(* Claims.                                                                 *)
(***************************************************************************)
Ready == connectState = "resolved" /\ transport = "open"

GoodInFlight == Cardinality({i \in 1..Len(wireFrames) : wireFrames[i] \in GoodFrames})

StrictlyIncreasing(seq) == \A i, j \in 1..Len(seq) : i < j => seq[i] < seq[j]

\* C1: in the Ready state, however the bytes of well-formed frames are split
\* into chunks, the receive buffer holds exactly the delivered part of the
\* frame still in flight, and the messages dispatched are exactly the
\* decodable frames whose last byte has arrived: none before its last byte,
\* one when it arrives.  (Checked from the first chunk handled in the Ready
\* state on, on streams that carry no oversized header.)
C1_PartialFrameBuffering ==
    (Ready /\ ~stale /\ ~oversizedSent)
        => (InSync /\ nDispatched = goodSent - GoodInFlight)

\* C1 witness: a frame whose bytes came in several chunks has been dispatched,
\* and the header and part of the payload of the next one are buffered.
C1_Witness ==
    /\ Ready /\ ~stale /\ ~oversizedSent
    /\ reassembled
    /\ nDispatched = 1
    /\ goodSent = 2
    /\ Len(readBuffer) > FRAME_HEADER_LEN

\* C2: a buffered header that declares a payload over 16 MiB terminates the
\* session: the session is closed and no request is left pending.
C2_OversizedTerminates ==
    (/\ connectState = "resolved"
     /\ Len(readBuffer) >= FRAME_HEADER_LEN
     /\ FrameTooLarge(parseFrameHeader(readBuffer)))
        => (transport = "closed" /\ pending = {})

\* C3: every pending request is completed at most once: the first message
\* other than `change` with its id fulfils it and removes it from the table,
\* and later messages with that id and close events complete nothing.
C3_AtMostOnce ==
    /\ [](\A id \in Ids : Len(settled[id]) <= 1 /\ ~(id \in pending /\ settled[id] # <<>>))
    /\ [][\A id \in Ids :
            responses'[id] > responses[id]
                => /\ id \notin pending'
                   /\ IF id \in pending
                      THEN /\ Len(settled'[id]) = 1
                           /\ settled'[id][1].kind = "resolve"
                      ELSE settled'[id] = settled[id]]_vars

\* C3 witness: a second response with the id of a fulfilled request was dispatched.
C3_Witness ==
    \E id \in Ids :
        /\ responses[id] = 2
        /\ settled[id] # <<>>
        /\ settled[id][1].kind = "resolve"
        /\ transport = "closed"

\* C4: when the stream closes, every entry then in the pending table is
\* failed with "Connection closed" and the table is empty afterwards.
C4_TransportCloseFailsAll ==
    [][(transport # "closed" /\ transport' = "closed")
          => (/\ pending' = {}
              /\ \A id \in pending :
                     settled'[id] = Append(settled[id], Rejected("Connection closed")))]_vars

\* C4 witness: the stream closed with two requests outstanding.
C4_Witness ==
    /\ transport = "closed"
    /\ pending = {}
    /\ \A id \in {1, 2} : settled[id] = <<Rejected("Connection closed")>>

\* C5: after an explicit close() no request is left pending, without any
\* later event of the stream.
C5_CloseFailsAll == ~socket => pending = {}

\* C6: on entering Closed, by the stream closing or by close(), the
\* subscription table is empty afterwards.
C6_ClosedClearsSubscriptions ==
    [][((transport # "closed" /\ transport' = "closed") \/ (socket /\ ~socket'))
          => subscriptions' = {}]_vars

\* C7: a request is fulfilled only by the response that carries its id, in
\* whatever order the responses arrive, and its operation sees that response.
C7_MatchedById ==
    /\ \A id \in Ids : \A i \in 1..Len(settled[id]) :
           settled[id][i].kind = "resolve" => settled[id][i].from = id
    /\ \A i \in 1..Len(microtasks) :
           microtasks[i].kind = "resolve" => microtasks[i].from = microtasks[i].id

\* C7 witness: the response to the second request arrived before the
\* response to the first, and both were fulfilled.
C7_Witness ==
    /\ Len(microtasks) = 2
    /\ microtasks[1].id = 2 /\ microtasks[1].kind = "resolve"
    /\ microtasks[2].id = 1 /\ microtasks[2].kind = "resolve"

\* C8: the ids of one session are strictly increasing, so registering a
\* request never replaces an entry that is still outstanding.
C8_FreshIds ==
    /\ StrictlyIncreasing(issued)
    /\ ~clobbered
    /\ pending \subseteq Range(issued)

\* C8 witness: two requests are outstanding under two ids.
C8_Witness == issued = <<1, 2>> /\ pending = {1, 2}

\* The server's response to request id has been received and was not an error.
Answered(id) ==
    /\ responses[id] >= 1
    /\ settled[id] # <<>>
    /\ settled[id][1].kind = "resolve"
    /\ settled[id][1].tag # "error"

\* C9: a subscription is in the table, and its callback is invoked, only
\* after the server's response to its subscribe request has been received;
\* an error response registers nothing.
C9_RegisteredAfterResponse ==
    /\ \A id \in subscriptions : ops[id] = "subscribe" /\ Answered(id)
    /\ \A i \in 1..Len(callbacks) : ops[callbacks[i]] = "subscribe" /\ Answered(callbacks[i])

\* C9 witness: a change notification reached the callback of a registered subscription.
C9_Witness == callbacks # <<>> /\ subscriptions # {}

\* C10: a subscribe whose response carries a tag other than `subscribed`
\* (and other than `error`) fails with "Unexpected response" and registers
\* nothing.
C10_SubscribeNeedsAck ==
    \A id \in Ids :
        (/\ ops[id] = "subscribe"
         /\ results[id].st # "pending"
         /\ settled[id] # <<>>
         /\ settled[id][1].kind = "resolve"
         /\ settled[id][1].tag \notin {"subscribed", "error"})
            => (results[id] = Fail("Unexpected response") /\ id \notin subscriptions)

\* The response that fulfilled request id, once its operation has resumed.
Outcome(id) == settled[id][1]
Resumed(id) ==
    /\ ops[id] # ""
    /\ results[id].st # "pending"
    /\ settled[id] # <<>>
    /\ settled[id][1].kind = "resolve"

\* C11: query, queryRaw, insert, update, delete and listCollections succeed
\* on a `result` response and fail with "Unexpected response" on a response
\* tagged neither `error` nor `result`; ping succeeds on `pong` and fails
\* with "Unexpected response" on every other tag.
C11_ExpectedTag ==
    \A id \in Ids :
        Resumed(id) =>
            /\ (ops[id] \in QueryOps /\ Outcome(id).tag = "result") => results[id] = Ok
            /\ (ops[id] \in QueryOps /\ Outcome(id).tag \notin {"error", "result"})
                   => results[id] = Fail("Unexpected response")
            /\ (ops[id] = "ping" /\ Outcome(id).tag = "pong") => results[id] = Ok
            /\ (ops[id] = "ping" /\ Outcome(id).tag # "pong")
                   => results[id] = Fail("Unexpected response")

\* C11 witness: a listCollections answered with `subscribed` failed with
\* "Unexpected response" and a ping answered with `pong` succeeded.
C11_Witness ==
    /\ Resumed(1) /\ ops[1] = "listCollections" /\ Outcome(1).tag = "subscribed"
    /\ results[1] = Fail("Unexpected response")
    /\ Resumed(2) /\ ops[2] = "ping" /\ Outcome(2).tag = "pong"
    /\ results[2] = Ok

\* C12: for every operation, an `error` response makes the operation fail
\* with the error text the server sent.
C12_ErrorCarriesText ==
    \A id \in Ids :
        (Resumed(id) /\ Outcome(id).tag = "error") => results[id] = Fail(Outcome(id).err)

\* A step in which the data handler ran, and the chunk it was given.
DataStep == transport = "open" /\ transport' = "open" /\ Len(Wire') < Len(Wire)
Chunk == Slice(Wire, 0, Len(Wire) - Len(Wire'))

\* C13: while the connect attempt is open, a chunk makes the session Ready
\* only if with it at least 19 bytes are buffered and the first of them is
\* the status Success; a chunk that leaves fewer than 19 bytes buffered
\* neither resolves nor rejects connect and every byte of it is kept.
C13_HandshakeNeeds19 ==
    /\ [](connectState = "resolved" => handshakeCompleted)
    /\ [][(DataStep /\ connectState = "pending" /\ ~handshakeCompleted) =>
            LET buf == readBuffer \o Chunk IN
            /\ (connectState' = "resolved" \/ handshakeCompleted')
                   => (/\ Len(buf) >= 19
                       /\ parseHandshakeResponse(Slice(buf, 0, 19)).status = HS_Success
                       /\ connectState' = "resolved" /\ handshakeCompleted')
            /\ Len(buf) < 19
                   => (/\ connectState' = "pending"
                       /\ ~handshakeCompleted'
                       /\ readBuffer' = buf)]_vars

\* C13 witness: 18 bytes of a handshake response are buffered and connect is
\* still undecided.
C13_Witness ==
    /\ connectState = "pending" /\ transport = "open"
    /\ Len(readBuffer) = 18 /\ readBuffer[1] = HS_Success

\* C14: once connect was rejected for the status of the handshake response
\* (version mismatch, authentication failed, unexpected status), the session
\* never completes a handshake and never records a session id, whatever
\* bytes arrive afterwards.
C14_FailedHandshakeIsTerminal ==
    connectError \in {"Version mismatch", "Authentication failed", "Unexpected status"}
        => (~handshakeCompleted /\ sessionId = <<>>)

\* The handshake request of this session's options.
HandshakeRequest ==
    buildHandshake(options.authToken,
                   [messagepack |-> options.useMessagePack,
                    jsonFallback |-> options.jsonFallback])

\* C15: the first write on the stream is the handshake request, made when
\* the stream opens, and every later write is made after the handshake has
\* completed successfully, whatever operations the user calls.
C15_HandshakeFirst ==
    /\ [](written # <<>> => written[1] = HandshakeRequest)
    /\ [][written' # written =>
            IF written = <<>>
            THEN transport = "connecting" /\ transport' = "open"
            ELSE handshakeCompleted /\ connectState = "resolved"]_vars

\* C15 witness: the handshake request and then a framed request were written.
C15_Witness ==
    /\ Len(written) >= 2
    /\ written[1] = HandshakeRequest
    /\ \E op \in SessionOps : written[2] = RequestFrame(RequestTag(op), 1)

\* The frames of the operations invoked so far, in the order of invocation.
FramesOfCalls == [i \in 1..Len(calls) |-> RequestFrame(calls[i].type, calls[i].id)]

\* C16: after the handshake request, the stream carries exactly the frames
\* of the operations invoked on the connected session (unsubscribe
\* included), in the order of invocation, and send never writes a frame
\* whose id is not already in the pending table.
C16_WritesInCallOrder ==
    /\ (written = <<>> => calls = <<>>)
    /\ (written # <<>> => Tail(written) = FramesOfCalls)
    /\ ~wroteUnregistered

\* C16 witness: a subscribe, its unsubscribe and a further request were
\* invoked and their three frames follow the handshake request in that order.
C16_Witness ==
    /\ Len(calls) = 3
    /\ calls[1].type = "subscribe" /\ calls[2].type = "unsubscribe" /\ calls[3].id = 2
    /\ Len(written) = 4
    /\ written[3] = RequestFrame("unsubscribe", 1)
    /\ pending = {1, 2}

\* The frames the server sent handled one after the other, first sent first.
RECURSIVE InWireOrder(_, _)
InWireOrder(st, frames) ==
    IF frames = <<>> THEN st
    ELSE InWireOrder(Extracted(st, SliceFrom(Head(frames), 6), Head(frames)[6]),
                     Tail(frames))

\* C17: a chunk that completes one or several frames has them dispatched in
\* the order the server put them on the wire, wherever the chunk boundaries
\* fall: the tables, the queued continuations and the callbacks invoked are
\* those of handling the completed frames first sent first.  (Streams
\* without an oversized header, from the first chunk handled in Ready on.)
C17_StreamOrder ==
    [][(DataStep /\ handshakeCompleted /\ InSync /\ ~oversizedSent) =>
          LET done == Advance(wireFrames, wireOff, Len(Wire) - Len(Wire')).done
              st == InWireOrder(Here, done)
          IN  /\ pending' = st.pending
              /\ settled' = st.settled
              /\ microtasks' = st.microtasks
              /\ callbacks' = st.callbacks
              /\ responses' = st.responses
              /\ nDispatched' = st.nDispatched
              /\ nDropped' = st.nDropped]_vars

\* C17 witness: one chunk completed the frames answering both requests,
\* the answer to the first sent first, and the two continuations are queued
\* in that order.
C17_Witness ==
    /\ Len(microtasks) = 2
    /\ microtasks[1].id = 1 /\ microtasks[1].tag = "subscribed"
    /\ microtasks[2].id = 2 /\ microtasks[2].tag = "result"
    /\ nDropped = 0

\* C18: an operation invoked once the session is Closed, by close() or by
\* the stream closing, fails, adds no entry to either table and writes
\* nothing.
C18_NotReusable ==
    [][(requestId' # requestId /\ (~socket \/ transport = "closed")) =>
          /\ pending' = pending
          /\ subscriptions' = subscriptions
          /\ written' = written
          /\ settled'[requestId'] # <<>>
          /\ settled'[requestId'][1].kind = "reject"]_vars

\* C19: an error event of the stream in the Ready state terminates the
\* session: every entry then in the pending table is failed with
\* "Connection closed" and the table is empty afterwards.
C19_TransportErrorFailsAll ==
    [][(transport = "open" /\ transport' = "errored" /\ handshakeCompleted
            /\ connectState = "resolved") =>
          /\ pending' = {}
          /\ \A id \in pending :
                 settled'[id] = Append(settled[id], Rejected("Connection closed"))]_vars

\* The ids unsubscribe was invoked with on the connected session.
Unsubscribed == {calls[i].id : i \in {j \in 1..Len(calls) : calls[j].type = "unsubscribe"}}

\* C20: once unsubscribe(id) has been invoked, no change notification with
\* that id invokes a callback, whatever the server sends.
C20_NoCallbackAfterUnsubscribe ==
    [][\A j \in (Len(callbacks) + 1)..Len(callbacks') : callbacks'[j] \notin Unsubscribed]_vars

\* C21: after an explicit close() the subscription table stays empty, also
\* when the acknowledgement of a subscribe arrives between close() and the
\* closing of the stream.
C21_NoSubscriptionAfterClose == ~socket => subscriptions = {}

\* The frames a chunk completed.
Completed == Advance(wireFrames, wireOff, Len(Wire) - Len(Wire')).done

\* C22: the encoding is assigned in one step only, the one that completes
\* the handshake, from the flags byte of the response, and keeps that value;
\* every frame the session writes carries it in its header and has a payload
\* in that encoding; an inbound frame is decoded by the encoding its own
\* header names, so a well-formed frame in the other encoding is dispatched.
C22_EncodingChosenOnce ==
    /\ [](\A i \in 2..Len(written) :
             /\ written[i][6] = encoding
             /\ decodeMessage(SliceFrom(written[i], 6), encoding).ok)
    /\ [][IF ~handshakeCompleted /\ handshakeCompleted'
          THEN /\ DataStep
               /\ encoding' = IF (readBuffer \o Chunk)[3] % 2 = 1
                               THEN ENC_MessagePack ELSE ENC_Json
          ELSE encoding' = encoding]_vars
    /\ [][(/\ DataStep /\ handshakeCompleted /\ InSync /\ ~oversizedSent
           /\ Len(Completed) = 1
           /\ Completed[1] \in GoodFrames)
              => nDispatched' = nDispatched + 1]_vars

\* C22 witness: the server chose JSON, a request was written as a JSON
\* frame, and inbound frames have been dispatched.
C22_Witness ==
    /\ encoding = ENC_Json
    /\ Len(written) >= 2
    /\ written[2][6] = ENC_Json
    /\ nDispatched = 2

\* C23: outbound frames are binary exactly when the client's handshake
\* request advertised the binary encoding and the flags of the server's
\* response have it set, and JSON otherwise.
C23_BinaryOnlyIfBothAdvertise ==
    /\ [](\A i \in 2..Len(written) :
             written[i][6] = ENC_MessagePack => options.useMessagePack)
    /\ [][(~handshakeCompleted /\ handshakeCompleted') =>
            (encoding' = ENC_MessagePack
                <=> (options.useMessagePack /\ (readBuffer \o Chunk)[3] % 2 = 1))]_vars

\* C24: getSessionId returns null as long as no handshake response with
\* status Success has been parsed; its value changes in one step only, the
\* one that parses such a response, from null to the text of the 16 bytes
\* of that response, and is the same ever after, close() and the closing of
\* the stream included.
C24_SessionIdSetOnce ==
    /\ [](~handshakeCompleted => getSessionId = <<>>)
    /\ [](handshakeCompleted => getSessionId # <<>>)
    /\ [][getSessionId' # getSessionId =>
            LET buf == readBuffer \o Chunk IN
            /\ DataStep
            /\ getSessionId = <<>>
            /\ ~handshakeCompleted /\ handshakeCompleted'
            /\ Len(buf) >= 19
            /\ buf[1] = HS_Success
            /\ getSessionId' = uuidToString(Slice(buf, 3, 19))]_vars

\* C24 witness: the session id of the handshake is still returned after
\* the server sent two more pieces, close() was called and the stream closed.
C24_Witness ==
    /\ getSessionId = uuidToString(CHOOSE sid \in SessionIds : TRUE)
    /\ ~socket
    /\ transport = "closed"
    /\ serverSent = 3

\* How many of the frames are of a given set.
CountIn(frames, set) == Cardinality({i \in 1..Len(frames) : frames[i] \in set})

\* C25: a frame whose payload does not decode under the encoding its header
\* declares is consumed and dropped, and every frame completed behind it by
\* the same chunk is still dispatched: a chunk drops exactly the undecodable
\* frames it completes, dispatches exactly the decodable ones, leaves the
\* buffer at the start of the frame in flight and the session Ready; a chunk
\* that completes only undecodable frames changes neither table, fulfils
\* nothing and invokes no callback.
C25_DecodeFailureDropped ==
    [][(/\ DataStep /\ handshakeCompleted /\ InSync /\ ~oversizedSent
        /\ CountIn(Completed, GarbledFrames) > 0) =>
          /\ nDropped' = nDropped + CountIn(Completed, GarbledFrames)
          /\ nDispatched' = nDispatched + CountIn(Completed, GoodFrames)
          /\ InSync'
          /\ handshakeCompleted' /\ connectState' = connectState
          /\ CountIn(Completed, GoodFrames) = 0 =>
                 /\ pending' = pending
                 /\ subscriptions' = subscriptions
                 /\ settled' = settled
                 /\ microtasks' = microtasks
                 /\ callbacks' = callbacks]_vars

\* C25 witness: an undecodable frame was dropped with a request outstanding,
\* a decodable frame was dispatched, and the session is Ready with nothing
\* left in the buffer.
C25_Witness ==
    /\ Ready
    /\ nDropped = 1 /\ nDispatched = 1
    /\ issued # <<>>
    /\ settled[1] # <<>> /\ settled[1][1].kind = "resolve"
    /\ readBuffer = <<>> /\ wireFrames = <<>>

\* C26: for every payload, message type and encoding, the header parsed
\* from the first 6 bytes of the frame buildFrame returns names that type and
\* that encoding and a payload length equal to the length of the payload,
\* and bytes 6 to 6 + that length of the frame are the payload; the frame
\* has no other bytes.
C26_FrameRoundTrip ==
    \A i \in 1..Len(built) :
        LET b == built[i] IN
        /\ b.header.msgType = b.msgType
        /\ b.header.encoding = b.encoding
        /\ b.header.payloadLength = Len(b.payload)
        /\ Slice(b.frame, 6, 6 + b.header.payloadLength) = b.payload
        /\ Len(b.frame) = 6 + Len(b.payload)

\* C26 witness: a notification frame with a JSON payload of 254 bytes, whose
\* length field is 00 00 01 00, and a frame with an empty payload were built.
C26_Witness ==
    /\ Len(built) = 2
    /\ built[1].msgType = MT_Notification /\ built[1].encoding = ENC_Json
    /\ Len(built[1].payload) = 254
    /\ Slice(built[1].frame, 0, 4) = <<0, 0, 1, 0>>
    /\ built[2].payload = <<>>

\* C27: for every token, the handshake request is the magic "SQRL", the
\* version 1, the flags byte, a 2-byte big-endian length and the bytes of
\* the token; the length field is the number of token bytes that follow,
\* and the request is 8 bytes longer than the token.
C27_HandshakeLayout ==
    written # <<>> =>
        LET h == written[1]
            n == Len(options.authToken)
        IN  /\ Len(h) = 8 + n
            /\ Slice(h, 0, 4) = <<83, 81, 82, 76>>
            /\ h[5] = 1
            /\ h[6] = (IF options.useMessagePack THEN 1 ELSE 0)
                         + (IF options.jsonFallback THEN 2 ELSE 0)
            /\ h[7] * 256 + h[8] = n
            /\ SliceFrom(h, 8) = options.authToken

\* Bytes that are whole frames laid end to end: each a 6-byte header and the
\* payload its length field declares.
RECURSIVE WholeFrames(_)
WholeFrames(bytes) ==
    \/ bytes = <<>>
    \/ /\ Len(bytes) >= FRAME_HEADER_LEN
       /\ LET total == 6 + parseFrameHeader(bytes).payloadLength IN
          /\ total >= FRAME_HEADER_LEN
          /\ total <= Len(bytes)
          /\ WholeFrames(SliceFrom(bytes, total))

\* C28: whatever bytes arrive, what handling a chunk in the Ready state
\* removes from the front of the receive buffer is nothing or whole frames,
\* so that the buffer is left at the first byte of a header.
C28_WholeFramesOnly ==
    [][(DataStep /\ handshakeCompleted) =>
          LET buf == readBuffer \o Chunk
              removed == Len(buf) - Len(readBuffer')
          IN  /\ readBuffer' = SliceFrom(buf, removed)
              /\ WholeFrames(Slice(buf, 0, removed))]_vars

\* The receive buffer starts with a complete frame of permitted size.
CompleteFrameBuffered ==
    /\ Len(readBuffer) >= FRAME_HEADER_LEN
    /\ LET header == parseFrameHeader(readBuffer) IN
       /\ ~FrameTooLarge(header)
       /\ Len(readBuffer) >= 6 + header.payloadLength

\* C29: in the Ready state, between chunks, the receive buffer holds no
\* complete frame of permitted size, also after the chunk that completed
\* the handshake and carried more than the 19 bytes of the response.
C29_NoCompleteFrameAtRest == Ready => ~CompleteFrameBuffered

\* C30: a chunk that completes one decodable frame touches one table only,
\* chosen by the kind of the message.  A `change` invokes the callback of
\* its id if the subscription table has it and leaves the pending table,
\* the fulfilments and the subscription table alone; any other message
\* fulfils and removes the pending entry of its id if there is one and
\* invokes no callback; with no entry for the id, both tables stay as
\* they are.
C30_DisjointTables ==
    [][(/\ DataStep /\ handshakeCompleted /\ InSync /\ ~oversizedSent
        /\ Len(Completed) = 1
        /\ Completed[1] \in GoodFrames) =>
          LET msg == decodeMessage(SliceFrom(Completed[1], 6), Completed[1][6]).msg IN
          /\ subscriptions' = subscriptions
          /\ IF msg.type = "change"
             THEN /\ pending' = pending
                  /\ settled' = settled
                  /\ microtasks' = microtasks
                  /\ callbacks' = IF msg.id \in subscriptions
                                   THEN Append(callbacks, msg.id) ELSE callbacks
             ELSE /\ callbacks' = callbacks
                  /\ pending' = pending \ {msg.id}
                  /\ IF msg.id \in pending
                     THEN settled' = [settled EXCEPT ![msg.id] = Append(@, Resolved(msg))]
                     ELSE settled' = settled /\ microtasks' = microtasks]_vars

\* C30 witness: the only message dispatched so far was a change
\* notification (no response has been counted), no subscription was there
\* to take it, and the subscribe request with id 1 is still outstanding
\* and unfulfilled.
C30_Witness ==
    /\ nDispatched = 1
    /\ \A i \in DOMAIN responses : responses[i] = 0
    /\ pending = {1}
    /\ ops[1] = "subscribe"
    /\ subscriptions = {}
    /\ callbacks = <<>>
    /\ settled[1] = <<>>
    /\ readBuffer = <<>>
    /\ wireFrames = <<>>

\* The session has been closed: by the transport, or by the user's close().
Closed == transport = "closed" \/ ~socket

\* C31: in a run that reaches Closed, every request registered in the
\* pending table is eventually fulfilled or failed.
C31_ClosedSettlesAll ==
    \A id \in Ids : <>Closed => ((id \in pending) ~> (settled[id] # <<>>))

\* C32: an unsubscribe(id) on a session with a socket removes id from the
\* subscription table, appends one unsubscribe request with that id to the
\* stream and leaves the pending table and every pending slot as they were;
\* without a socket a subscription is removed and nothing is written or
\* registered.  A subscription in the table has no pending entry, so the
\* `unsubscribed` reply for a subscription whose subscribe was answered
\* finds no entry and changes nothing.
C32_UnsubscribeFireAndForget ==
    /\ [](subscriptions \cap pending = {})
    /\ [][(calls' # calls /\ calls'[Len(calls')].type = "unsubscribe") =>
            LET id == calls'[Len(calls')].id IN
            /\ socket
            /\ subscriptions' = subscriptions \ {id}
            /\ written' = Append(written,
                                 buildFrame(MT_Request, encoding,
                                            encodeMessage(Msg("unsubscribe", id, ""), encoding)))
            /\ pending' = pending
            /\ settled' = settled
            /\ microtasks' = microtasks]_vars
    /\ [][(~socket /\ subscriptions' # subscriptions /\ microtasks' = microtasks) =>
            /\ subscriptions' \subseteq subscriptions
            /\ written' = written
            /\ pending' = pending
            /\ settled' = settled]_vars
    /\ [][(/\ DataStep /\ handshakeCompleted /\ InSync /\ ~oversizedSent
           /\ Len(Completed) = 1
           /\ Completed[1] \in GoodFrames
           /\ LET msg == decodeMessage(SliceFrom(Completed[1], 6), Completed[1][6]).msg IN
              /\ msg.type = "unsubscribed"
              /\ msg.id \in Unsubscribed
              /\ settled[msg.id] # <<>>) =>
            /\ pending' = pending
            /\ subscriptions' = subscriptions
            /\ settled' = settled
            /\ microtasks' = microtasks
            /\ callbacks' = callbacks]_vars

\* C32 witness: the subscription with id 1 was acknowledged and registered,
\* unsubscribe(1) removed it and wrote its request as the third write, and
\* a further message with id 1 has been dispatched since without settling
\* anything or registering anything.
C32_Witness ==
    /\ socket
    /\ calls = <<[type |-> "subscribe", id |-> 1], [type |-> "unsubscribe", id |-> 1]>>
    /\ Len(written) = 3
    /\ written[3] = RequestFrame("unsubscribe", 1)
    /\ results[1] = Ok
    /\ responses[1] = 2
    /\ Len(settled[1]) = 1
    /\ subscriptions = {}
    /\ pending = {}
    /\ readBuffer = <<>>
    /\ wireFrames = <<>>

\* The message a well-formed frame carries.
MessageOf(frame) == decodeMessage(SliceFrom(frame, 6), frame[6]).msg

\* The acknowledgement of subscribe request id was dispatched in an earlier step.
AcknowledgedBefore(id) ==
    /\ ops[id] = "subscribe"
    /\ settled[id] # <<>>
    /\ settled[id][1].kind = "resolve"
    /\ settled[id][1].tag = "subscribed"

\* Frame k of the chunk is the acknowledgement of the outstanding subscribe
\* request id: the first response with that id in the chunk.
AcknowledgedAt(id, k) ==
    /\ ops[id] = "subscribe"
    /\ id \in pending
    /\ MessageOf(Completed[k]) = Msg("subscribed", id, "")
    /\ \A j \in 1..(k - 1) :
           MessageOf(Completed[j]).id = id => MessageOf(Completed[j]).type = "change"

\* The change notifications for id in the chunk that follow its acknowledgement.
ChangesAfterAck(id) ==
    {j \in 1..Len(Completed) :
        /\ MessageOf(Completed[j]) = Msg("change", id, "")
        /\ \/ AcknowledgedBefore(id)
           \/ \E k \in 1..(j - 1) : AcknowledgedAt(id, k)}

CallbacksOf(seq, id) == Cardinality({j \in 1..Len(seq) : seq[j] = id})

\* C33: in a chunk of well-formed frames, every change notification that
\* follows the acknowledgement of its subscription on the wire invokes the
\* callback, the subscription not having been removed by unsubscribe or
\* close(): also when the acknowledgement is in the same chunk.
C33_NoChangeLostAfterAck ==
    [][(/\ DataStep /\ handshakeCompleted /\ InSync /\ ~oversizedSent
        /\ socket
        /\ \A j \in 1..Len(Completed) : Completed[j] \in GoodFrames) =>
          \A id \in Ids \ Unsubscribed :
              CallbacksOf(callbacks', id) - CallbacksOf(callbacks, id)
                  >= Cardinality(ChangesAfterAck(id))]_vars

\* C34: once the stream has closed or reported an error, the connect attempt
\* is eventually settled: resolved before that, or rejected.
C34_ConnectSettles ==
    (transport \in {"closed", "errored"}) ~> (connectState # "pending")

\* C35: in every iteration of the loop that cuts a frame off the buffer, the
\* payload length parseFrameHeader computed is not negative and at least the
\* 6 bytes of the header are removed.
C35_PayloadLengthNonNegative ==
    [][(Len(readBuffer') # Len(readBuffer)
            \/ nDispatched' + nDropped' # nDispatched + nDropped) =>
          /\ parseFrameHeader(readBuffer).payloadLength >= 0
          /\ Len(readBuffer) - Len(readBuffer') >= FRAME_HEADER_LEN]_vars

\* C36: every iteration of the loop of processFrames that does not return
\* leaves the buffer strictly shorter, so the loop ends after fewer
\* iterations than the buffer has bytes.
C36_LoopShortensBuffer == [][Len(readBuffer') < Len(readBuffer)]_vars

\* C36 witness: three frames were cut off the buffer, the last of them one
\* whose length field is less than 2, and the loop has come to its end with
\* fewer than 6 bytes left.
C36_Witness ==
    /\ nDispatched = 2
    /\ nDropped = 1
    /\ Len(readBuffer) < FRAME_HEADER_LEN
    /\ readBuffer # <<>>

\* C37: an operation whose send wrote no frame, for want of a socket or
\* because the message could not be encoded, is rejected and the pending
\* table is as it was before the call.
C37_FailedSendLeavesNoEntry ==
    [][(requestId' # requestId /\ written' = written) =>
          /\ pending' = pending
          /\ settled'[requestId'] # <<>>
          /\ settled'[requestId'][1].kind = "reject"]_vars

\* C38: the WebSocket client opens at most maxReconnectAttempts connections
\* from its timers without an open event in between, its counter never
\* exceeds maxReconnectAttempts, with reconnect off no timer is set and no
\* second connection is opened, and an open event sets the counter to 0.
C38_ReconnectBounded ==
    /\ [](attemptsSinceOpen <= wsOptions.maxReconnectAttempts)
    /\ [](reconnectAttempts <= wsOptions.maxReconnectAttempts)
    /\ [](~wsOptions.reconnect => timers = 0 /\ Len(sockets) = 1)
    /\ [][\A i \in DOMAIN sockets :
              (sockets[i] = "connecting" /\ sockets'[i] = "open") =>
                  reconnectAttempts' = 0]_vars

\* C38 witness: the connection was up once and went down, both of the two
\* attempts allowed were made and failed, and the client has given up: no
\* timer is set.
C38_Witness ==
    /\ connectWsState = "resolved"
    /\ ~closed
    /\ wsOptions = [reconnect |-> TRUE, maxReconnectAttempts |-> 2]
    /\ reconnectAttempts = 2
    /\ attemptsSinceOpen = 2
    /\ timers = 0
    /\ sockets = <<"closed", "closed", "closed">>

\* C39: no WebSocket is created once close() has been called.
C39_NoConnectionAfterClose == [][closed => Len(sockets') = Len(sockets)]_vars

\* C40: a request that is outstanding when the connection is going down or
\* is down is eventually removed from the pending table, having been failed
\* with "Connection closed".
C40_OutstandingFailOnDisconnect ==
    \A id \in WsIds :
        (id \in wsPending /\ sockets[ws] \in {"failed", "closing", "closed"})
            ~> (id \notin wsPending /\ wsSettled[id] = <<Rejected("Connection closed")>>)

=============================================================================
